---------------------------- MODULE Spec2Model ----------------------------
(***************************************************************************)
(* State-machine model of the CreditLineFHE contract                       *)
(* (src/unnamed/part_000).  One action per external function.  For each   *)
(* function f, fOutcome(args) is the revert reason its require chain gives *)
(* in the current state, or Ok; a reverted call changes nothing (the EVM    *)
(* rolls the transaction back), a view call changes nothing either and its *)
(* return value is fReturn(args).                                          *)
(*                                                                         *)
(* The FHE library is an external collaborator: a ciphertext (euint32) is  *)
(* modelled as an opaque record around its 32-bit plaintext, FHE.add and   *)
(* FHE.sub wrap modulo 2^32, FHE.requestDecryption hands out fresh request *)
(* ids and remembers the handles submitted, and FHE.checkSignatures        *)
(* accepts exactly the KMS signature over the true decryption of the       *)
(* handles submitted under the request id.                                 *)
(*                                                                         *)
(* activeAtRequest, fulfilledCallback and foldOutCount are history         *)
(* variables: they record what the properties speak about and are read by  *)
(* no action.                                                              *)
(*                                                                         *)
(* The second part models the web client (src/frontend/web/src/App.tsx):   *)
(* submitCreditLine and loadCreditLines of two browser sessions working on *)
(* the shared key-value store behind contract.getData / contract.setData,  *)
(* one step per awaited call.  The contract and the client do not touch    *)
(* each other's state: Spec runs the contract with the client at rest,     *)
(* ClientSpec runs the clients with the contract at rest.                  *)
(***************************************************************************)
EXTENDS Integers, Sequences, FiniteSets, TLC

\* ------------------------------------------------------------------ bounds
MaxLines == 2
MaxRequests == 2
\* submissions each web client session makes
MaxSubmissions == 2

\* --------------------------------------------------------------- constants
\* euint32 / uint32: arithmetic is modulo 2^32.  A 32-bit value is kept as
\* its two 16-bit halves <<hi, lo>> (value = hi * 2^16 + lo), so that the
\* full width, wrap-around included, is computed exactly.
TwoPow16 == 65536
\* "Using 1 as aggregation ID"
AggregationId == 1

U32(hi, lo) == <<hi, lo>>
Zero32 == U32(0, 0)
U32Add(a, b) ==
    LET lo == a[2] + b[2]
        carry == lo \div TwoPow16
    IN  U32((a[1] + b[1] + carry) % TwoPow16, lo % TwoPow16)
\* variant: the borrow out of the low half is dropped
U32SubNoBorrow(a, b) ==
    U32((a[1] - b[1] + TwoPow16) % TwoPow16, (a[2] - b[2] + TwoPow16) % TwoPow16)
U32Sub(a, b) ==
    LET lo == a[2] - b[2]
        borrow == IF lo < 0 THEN 1 ELSE 0
    IN  U32((a[1] - b[1] - borrow + TwoPow16) % TwoPow16, (lo + TwoPow16) % TwoPow16)

\* ---------------------------------------------------------------- universe
ZeroAddress == "0x0"
Deployer == "agg"
\* Two callers give every combination of roles: the enterprise role moves
\* between them, so each of them is in turn owner only, aggregator only,
\* both, or neither.
Senders == {"agg", "ent"}
Addresses == Senders \cup {ZeroAddress}
\* block.timestamp: every modelled transaction is mined at the same time
BlockTimestamp == 1
\* submissions the aggregator may relay: (bank, amount, utilized) in
\* plaintext; the last one makes the 32-bit accumulators wrap
Submissions == {<<"bankA", U32(0, 500), U32(0, 100)>>,
                <<"bankB", U32(0, 300), U32(0, 50)>>,
                <<"bankA", U32(65535, 65535), U32(65535, 65440)>>}
LineIds == 0..(MaxLines + 1)
RequestIds == 0..MaxRequests

\* ------------------------------------------------------ ciphertext capability
asEuint32(v) == [pt |-> v]
Decrypt(ct) == ct.pt
FHEadd(a, b) == [pt |-> U32Add(a.pt, b.pt)]
FHEsub(a, b) == [pt |-> U32Sub(a.pt, b.pt)]

\* revert reasons of the contract (and the library's signature failure,
\* the out-of-bounds panic of results[i])
ErrNotAggregator == "Caller not authorized"
ErrNotEnterprise == "Enterprise only"
ErrAlreadyRevealed == "Already revealed"
ErrInvalidRequest == "Invalid request"
ErrLineInactive == "Line already inactive"
ErrInvalidSignatures == "checkSignatures reverted"
ErrIndexOutOfBounds == "Panic(0x32)"
Ok == "ok"

VARIABLES
    lineCount,
    encryptedLines,
    aggregatedResult,
    encryptedTotalAvailable,
    encryptedTotalUtilized,
    aggregator,
    enterprise,
    requestToAggregationId,
    decryptionRequests,
    activeAtRequest,
    fulfilledCallback,
    foldOutCount,
    dataStore,
    sessions

storage == <<lineCount, encryptedLines, aggregatedResult,
             encryptedTotalAvailable, encryptedTotalUtilized,
             aggregator, enterprise, requestToAggregationId>>
ledger == <<lineCount, encryptedLines, encryptedTotalAvailable,
            encryptedTotalUtilized>>
revealState == <<requestToAggregationId, aggregatedResult>>
oracle == <<decryptionRequests>>
ghost == <<activeAtRequest, fulfilledCallback, foldOutCount>>
\* the web client sessions and the key-value store they share
webClient == <<dataStore, sessions>>
\* the CreditLineFHE contract and its decryption oracle
contractVars == <<lineCount, encryptedLines, aggregatedResult,
                  encryptedTotalAvailable, encryptedTotalUtilized,
                  aggregator, enterprise, requestToAggregationId,
                  decryptionRequests,
                  activeAtRequest, fulfilledCallback, foldOutCount>>
vars == <<lineCount, encryptedLines, aggregatedResult,
          encryptedTotalAvailable, encryptedTotalUtilized,
          aggregator, enterprise, requestToAggregationId,
          decryptionRequests,
          activeAtRequest, fulfilledCallback, foldOutCount,
          dataStore, sessions>>

\* default value of an unset mapping slot
EmptyLine ==
    [lineId |-> 0, bankAddress |-> ZeroAddress,
     encryptedAmount |-> [pt |-> Zero32], encryptedUtilized |-> [pt |-> Zero32],
     timestamp |-> 0, isActive |-> FALSE]

\* history: activeAtRequest[r + 1] is the pair of sums over the records
\* active when request r was issued; fulfilledCallback is the argument list
\* <<requestId, cleartexts, proof>> of the callback that succeeded, <<>>
\* while none has; foldOutCount[i] is the number of times the ciphertexts
\* of line i were subtracted from the accumulators
NoCallback == <<>>
\* no callback has succeeded yet (request ids start at 0)
NoRequest == 0 - 1
fulfilledRequest ==
    IF fulfilledCallback = NoCallback THEN NoRequest ELSE fulfilledCallback[1]

RECURSIVE SumOver(_, _, _)
SumOver(lines, ids, field) ==
    IF ids = {} THEN Zero32
    ELSE LET i == CHOOSE x \in ids : TRUE
         IN  U32Add(Decrypt(lines[i][field]), SumOver(lines, ids \ {i}, field))

ActiveIds(lines) == {i \in DOMAIN lines : lines[i].isActive}
SumActiveAvailable == SumOver(encryptedLines, ActiveIds(encryptedLines), "encryptedAmount")
SumActiveUtilized == SumOver(encryptedLines, ActiveIds(encryptedLines), "encryptedUtilized")

\* a reverted transaction, or a view call: the state is left as it was
Revert == UNCHANGED vars

\* ------------------------------------------------- web client: the store
\* two browser sessions
Clients == {"c1", "c2"}
\* recordId = `${Date.now()}-${random}`: a fresh id per submission, here
\* the session and the number of its submission
RecordIds == Clients \X (1..MaxSubmissions)
NoRecordId == <<>>
\* keys of the store: "credit_line_keys" and `credit_line_${recordId}`
IndexKey == <<"credit_line_keys">>
recordKey(recordId) == <<"credit_line_", recordId>>
\* the bytes of a key never written: keysBytes.length = 0
EmptyBytes == <<>>
\* the store holds the keys written so far
EmptyStore == <<>>
\* ethers.toUtf8Bytes(JSON.stringify(v)) and
\* JSON.parse(ethers.toUtf8String(bytes))
JSONstringify(v) == <<"utf8-json", v>>
JSONparse(bytes) == bytes[2]
\* a browser session: where it is in submitCreditLine (pc), the recordId
\* and the local keys array of the submission under way, the number of
\* submissions it has started, and (history) the ids of those that
\* reported success
IdleSession(count, completed) ==
    [pc |-> "idle", recordId |-> NoRecordId, keys |-> <<>>,
     count |-> count, completed |-> completed]
\* contract.getData(key), contract.setData(key, bytes)
getData(key) == IF key \in DOMAIN dataStore THEN dataStore[key] ELSE EmptyBytes
setData(key, bytes) ==
    [k \in DOMAIN dataStore \cup {key} |-> IF k = key THEN bytes ELSE dataStore[k]]
\* no browser session is open
NoSessions == <<>>

\* the contract after its constructor
ContractInit ==
    /\ lineCount = 0
    /\ encryptedLines = [i \in LineIds |-> EmptyLine]
    /\ aggregatedResult = [totalAvailable |-> Zero32, totalUtilized |-> Zero32, isRevealed |-> FALSE]
    /\ encryptedTotalAvailable = asEuint32(Zero32)
    /\ encryptedTotalUtilized = asEuint32(Zero32)
    /\ aggregator = Deployer
    /\ enterprise \in Senders
    /\ requestToAggregationId = [r \in RequestIds |-> 0]
    /\ decryptionRequests = <<>>
    /\ activeAtRequest = <<>>
    /\ fulfilledCallback = NoCallback
    /\ foldOutCount = [i \in LineIds |-> 0]

\* the contract as deployed; no web client is running
Init ==
    /\ ContractInit
    /\ dataStore = EmptyStore
    /\ sessions = NoSessions

\* ---------------------------------------------------------------- modifiers
\* variant: the aggregator gate compares with the enterprise
onlyAggregatorChecksEnterprise(sender) == sender = enterprise

onlyAggregator(sender) == sender = aggregator

\* variant: the enterprise gate compares with the aggregator
onlyEnterpriseChecksAggregator(sender) == sender = aggregator

onlyEnterprise(sender) == sender = enterprise

\* ------------------------------------------------- addEncryptedCreditLine
\* variant: only the available total is folded in
updateAggregatedTotalsOnlyAvailable(lines, lineId) ==
    <<FHEadd(encryptedTotalAvailable, lines[lineId].encryptedAmount),
      encryptedTotalUtilized>>

\* the accumulator pair after folding line `lineId` of `lines` in
updateAggregatedTotals(lines, lineId) ==
    <<FHEadd(encryptedTotalAvailable, lines[lineId].encryptedAmount),
      FHEadd(encryptedTotalUtilized, lines[lineId].encryptedUtilized)>>

\* variant: the ledger is frozen once a result is published
addEncryptedCreditLineOutcomeFrozenAfterReveal(sender) ==
    IF ~onlyAggregator(sender) THEN ErrNotAggregator
    ELSE IF aggregatedResult.isRevealed THEN ErrAlreadyRevealed
    ELSE Ok

addEncryptedCreditLineOutcome(sender) ==
    IF ~onlyAggregator(sender) THEN ErrNotAggregator ELSE Ok

\* variant: the id is read before lineCount is incremented
newLineIdBeforeIncrement == lineCount

\* lineCount += 1; newLineId = lineCount
newLineId == lineCount + 1

addEncryptedCreditLine(sender, bankAddress, encryptedAmount, encryptedUtilized) ==
    IF addEncryptedCreditLineOutcome(sender) # Ok
    THEN Revert
    ELSE /\ lineCount < MaxLines
         /\ LET lines == [encryptedLines EXCEPT ![newLineId] =
                            [lineId |-> newLineId,
                             bankAddress |-> bankAddress,
                             encryptedAmount |-> encryptedAmount,
                             encryptedUtilized |-> encryptedUtilized,
                             timestamp |-> BlockTimestamp,
                             isActive |-> TRUE]]
                totals == updateAggregatedTotals(lines, newLineId)
            IN  /\ lineCount' = lineCount + 1
                /\ encryptedLines' = lines
                /\ encryptedTotalAvailable' = totals[1]
                /\ encryptedTotalUtilized' = totals[2]
         /\ UNCHANGED <<webClient, aggregatedResult, aggregator, enterprise,
                        requestToAggregationId, oracle, ghost>>

\* --------------------------------------------------- deactivateCreditLine
\* variant: without require(encryptedLines[lineId].isActive)
deactivateCreditLineOutcomeNoActiveCheck(sender, lineId) ==
    IF ~onlyAggregator(sender) THEN ErrNotAggregator ELSE Ok

\* variant: an id that was never allocated gets an error of its own
deactivateCreditLineOutcomeNotFound(sender, lineId) ==
    IF ~onlyAggregator(sender) THEN ErrNotAggregator
    ELSE IF lineId = 0 \/ lineId > lineCount THEN "Line not found"
    ELSE IF ~encryptedLines[lineId].isActive THEN ErrLineInactive
    ELSE Ok

deactivateCreditLineOutcome(sender, lineId) ==
    IF ~onlyAggregator(sender) THEN ErrNotAggregator
    ELSE IF ~encryptedLines[lineId].isActive THEN ErrLineInactive
    ELSE Ok

\* the accumulator pair after folding line `lineId` out
\* variant: the utilized accumulator is not folded out
deactivateTotalsKeepsUtilized(lineId) ==
    <<FHEsub(encryptedTotalAvailable, encryptedLines[lineId].encryptedAmount),
      encryptedTotalUtilized>>

deactivateTotals(lineId) ==
    <<FHEsub(encryptedTotalAvailable, encryptedLines[lineId].encryptedAmount),
      FHEsub(encryptedTotalUtilized, encryptedLines[lineId].encryptedUtilized)>>

\* variant: the record is deleted instead of flagged
deactivatedLinesDeleted(lineId) ==
    [encryptedLines EXCEPT ![lineId] = EmptyLine]

\* line.isActive = false
deactivatedLines(lineId) ==
    [encryptedLines EXCEPT ![lineId].isActive = FALSE]

deactivateCreditLine(sender, lineId) ==
    IF deactivateCreditLineOutcome(sender, lineId) # Ok
    THEN Revert
    ELSE /\ encryptedTotalAvailable' = deactivateTotals(lineId)[1]
         /\ encryptedTotalUtilized' = deactivateTotals(lineId)[2]
         /\ encryptedLines' = deactivatedLines(lineId)
         /\ foldOutCount' = [foldOutCount EXCEPT ![lineId] = @ + 1]
         /\ UNCHANGED <<webClient, lineCount, aggregatedResult, aggregator, enterprise,
                        requestToAggregationId, oracle,
                        activeAtRequest, fulfilledCallback>>

\* ----------------------------------------------------- requestAggregation
\* variant: a request is refused while a handle is registered
requestAggregationOutcomeSinglePending(sender) ==
    IF ~onlyEnterprise(sender) THEN ErrNotEnterprise
    ELSE IF aggregatedResult.isRevealed THEN ErrAlreadyRevealed
    ELSE IF \E r \in RequestIds : requestToAggregationId[r] = AggregationId
         THEN "Already pending"
    ELSE Ok

\* variant: without require(!aggregatedResult.isRevealed)
requestAggregationOutcomeNoRevealedCheck(sender) ==
    IF ~onlyEnterprise(sender) THEN ErrNotEnterprise ELSE Ok

requestAggregationOutcome(sender) ==
    IF ~onlyEnterprise(sender) THEN ErrNotEnterprise
    ELSE IF aggregatedResult.isRevealed THEN ErrAlreadyRevealed
    ELSE Ok

\* FHE.requestDecryption: the id it returns is the number of requests so far
NextRequestId == Len(decryptionRequests)

\* variant: the two handles in the other order
requestCiphertextsSwapped == <<encryptedTotalUtilized, encryptedTotalAvailable>>

\* the handles submitted for decryption
requestCiphertexts == <<encryptedTotalAvailable, encryptedTotalUtilized>>

\* variant: only the latest handle stays registered
registerRequestSingleSlot(reqId) ==
    [r \in RequestIds |-> IF r = reqId THEN AggregationId ELSE 0]

\* variant: the request id itself is stored instead of the aggregation id
registerRequestStoresRequestId(reqId) ==
    [requestToAggregationId EXCEPT ![reqId] = reqId]

\* requestToAggregationId[reqId] = 1
registerRequest(reqId) ==
    [requestToAggregationId EXCEPT ![reqId] = AggregationId]

requestAggregation(sender) ==
    IF requestAggregationOutcome(sender) # Ok
    THEN Revert
    ELSE /\ NextRequestId < MaxRequests
         /\ LET ciphertexts == requestCiphertexts
                reqId == NextRequestId
            IN  /\ decryptionRequests' = Append(decryptionRequests, ciphertexts)
                /\ requestToAggregationId' = registerRequest(reqId)
                /\ activeAtRequest' =
                       Append(activeAtRequest, <<SumActiveAvailable, SumActiveUtilized>>)
         /\ UNCHANGED <<webClient, ledger, aggregatedResult, aggregator, enterprise,
                        fulfilledCallback, foldOutCount>>

\* ------------------------------------------------- handleAggregationResult
IssuedRequestIds == {r \in RequestIds : r < Len(decryptionRequests)}

\* variant: the handles alias the accumulators, the oracle decrypts what
\* they hold when it answers
TrueCleartextsOfCurrentTotals(r) ==
    <<Decrypt(encryptedTotalAvailable), Decrypt(encryptedTotalUtilized)>>

\* what the decryption oracle signs for request r: the plaintexts of the
\* handles submitted under r
TrueCleartexts(r) ==
    <<Decrypt(decryptionRequests[r + 1][1]), Decrypt(decryptionRequests[r + 1][2])>>

KmsProof(r) == <<"kms", r>>
ForgedProof == <<"forged", 0>>

\* FHE.checkSignatures: passes only for the KMS signature issued for this
\* very request over exactly these cleartexts
checkSignatures(requestId, cleartexts, proof) ==
    /\ requestId \in IssuedRequestIds
    /\ proof = KmsProof(requestId)
    /\ cleartexts = TrueCleartexts(requestId)

\* abi.decode(cleartexts, (uint32[]))
abiDecodeUint32Array(cleartexts) ==
    [i \in 1..Len(cleartexts) |-> cleartexts[i]]

\* variant: without require(!aggregatedResult.isRevealed)
handleAggregationResultOutcomeNoRevealedCheck(requestId, cleartexts, proof) ==
    IF requestToAggregationId[requestId] # AggregationId THEN ErrInvalidRequest
    ELSE IF ~checkSignatures(requestId, cleartexts, proof) THEN ErrInvalidSignatures
    ELSE IF Len(abiDecodeUint32Array(cleartexts)) < 2 THEN ErrIndexOutOfBounds
    ELSE Ok

\* variant: without FHE.checkSignatures
handleAggregationResultOutcomeNoSignatureCheck(requestId, cleartexts, proof) ==
    IF requestToAggregationId[requestId] # AggregationId THEN ErrInvalidRequest
    ELSE IF aggregatedResult.isRevealed THEN ErrAlreadyRevealed
    ELSE IF Len(abiDecodeUint32Array(cleartexts)) < 2 THEN ErrIndexOutOfBounds
    ELSE Ok

\* variant: without the requestToAggregationId check
handleAggregationResultOutcomeNoRequestCheck(requestId, cleartexts, proof) ==
    IF aggregatedResult.isRevealed THEN ErrAlreadyRevealed
    ELSE IF ~checkSignatures(requestId, cleartexts, proof) THEN ErrInvalidSignatures
    ELSE IF Len(abiDecodeUint32Array(cleartexts)) < 2 THEN ErrIndexOutOfBounds
    ELSE Ok

handleAggregationResultOutcome(requestId, cleartexts, proof) ==
    IF requestToAggregationId[requestId] # AggregationId THEN ErrInvalidRequest
    ELSE IF aggregatedResult.isRevealed THEN ErrAlreadyRevealed
    ELSE IF ~checkSignatures(requestId, cleartexts, proof) THEN ErrInvalidSignatures
    ELSE IF Len(abiDecodeUint32Array(cleartexts)) < 2 THEN ErrIndexOutOfBounds
    ELSE Ok

\* variant: the callback carries the onlyEnterprise modifier
handleAggregationResultOnlyEnterprise(sender, requestId, cleartexts, proof) ==
    IF \/ ~onlyEnterprise(sender)
       \/ handleAggregationResultOutcome(requestId, cleartexts, proof) # Ok
    THEN Revert
    ELSE /\ LET results == abiDecodeUint32Array(cleartexts)
            IN  aggregatedResult' = [totalAvailable |-> results[1],
                                     totalUtilized |-> results[2],
                                     isRevealed |-> TRUE]
         /\ fulfilledCallback' = <<requestId, cleartexts, proof>>
         /\ UNCHANGED <<webClient, ledger, aggregator, enterprise, requestToAggregationId,
                        oracle, activeAtRequest, foldOutCount>>

handleAggregationResult(sender, requestId, cleartexts, proof) ==
    IF handleAggregationResultOutcome(requestId, cleartexts, proof) # Ok
    THEN Revert
    ELSE /\ LET results == abiDecodeUint32Array(cleartexts)
            IN  aggregatedResult' = [totalAvailable |-> results[1],
                                     totalUtilized |-> results[2],
                                     isRevealed |-> TRUE]
         /\ fulfilledCallback' = <<requestId, cleartexts, proof>>
         /\ UNCHANGED <<webClient, ledger, aggregator, enterprise, requestToAggregationId,
                        oracle, activeAtRequest, foldOutCount>>

\* request ids a caller may present: every issued one and one that was
\* never issued
RequestIdInputs == IssuedRequestIds \cup {NextRequestId}

\* (cleartexts, proof) payloads a caller may present: the KMS response to
\* any issued request (possibly replayed under another request id), a
\* response with its cleartexts altered, true cleartexts under a forged
\* proof, and a forged array too short to index
MadeUpCleartexts == <<U32(0, 7), U32(0, 7)>>
ShortCleartexts == <<U32(0, 7)>>
CallbackPayloads ==
    {<<TrueCleartexts(q), KmsProof(q)>> : q \in IssuedRequestIds}
        \cup {<<MadeUpCleartexts, KmsProof(q)>> : q \in IssuedRequestIds}
        \cup {<<TrueCleartexts(q), ForgedProof>> : q \in IssuedRequestIds}
        \cup {<<ShortCleartexts, ForgedProof>>}

\* --------------------------------------------------- getAggregationResult
\* variant: the getter refuses to answer before a result is published
getAggregationResultOutcomeNotRevealed(sender) ==
    IF ~onlyEnterprise(sender) THEN ErrNotEnterprise
    ELSE IF ~aggregatedResult.isRevealed THEN "Not revealed"
    ELSE Ok

getAggregationResultOutcome(sender) ==
    IF ~onlyEnterprise(sender) THEN ErrNotEnterprise ELSE Ok

getAggregationResultReturn ==
    <<aggregatedResult.totalAvailable,
      aggregatedResult.totalUtilized,
      aggregatedResult.isRevealed>>

getAggregationResult(sender) ==
    IF getAggregationResultOutcome(sender) # Ok
    THEN Revert
    ELSE UNCHANGED vars

\* ------------------------------------------------------ getCreditLineInfo
getCreditLineInfoOutcome(sender) ==
    IF ~onlyEnterprise(sender) THEN ErrNotEnterprise ELSE Ok

\* variant: the getter hands out the amount ciphertext as well
getCreditLineInfoReturnWithAmount(lineId) ==
    <<encryptedLines[lineId].bankAddress,
      encryptedLines[lineId].timestamp,
      encryptedLines[lineId].isActive,
      encryptedLines[lineId].encryptedAmount>>

getCreditLineInfoReturn(lineId) ==
    <<encryptedLines[lineId].bankAddress,
      encryptedLines[lineId].timestamp,
      encryptedLines[lineId].isActive>>

getCreditLineInfo(sender, lineId) ==
    IF getCreditLineInfoOutcome(sender) # Ok
    THEN Revert
    ELSE UNCHANGED vars

\* -------------------------------------------- transferEnterpriseOwnership
\* variant: without the onlyEnterprise modifier
transferEnterpriseOwnershipOutcomeUngated(sender) == Ok

transferEnterpriseOwnershipOutcome(sender) ==
    IF ~onlyEnterprise(sender) THEN ErrNotEnterprise ELSE Ok

\* variant: the transfer hands over the aggregator role as well
transferEnterpriseOwnershipBothRoles(sender, newEnterprise) ==
    IF transferEnterpriseOwnershipOutcome(sender) # Ok
    THEN Revert
    ELSE /\ enterprise' = newEnterprise
         /\ aggregator' = newEnterprise
         /\ UNCHANGED <<webClient, ledger, aggregatedResult,
                        requestToAggregationId, oracle, ghost>>

transferEnterpriseOwnership(sender, newEnterprise) ==
    IF transferEnterpriseOwnershipOutcome(sender) # Ok
    THEN Revert
    ELSE /\ enterprise' = newEnterprise
         /\ UNCHANGED <<webClient, ledger, aggregatedResult, aggregator,
                        requestToAggregationId, oracle, ghost>>

Next ==
    \/ \E s \in Senders, a \in Submissions :
           addEncryptedCreditLine(s, a[1], asEuint32(a[2]), asEuint32(a[3]))
    \/ \E s \in Senders, i \in LineIds : deactivateCreditLine(s, i)
    \/ \E s \in Senders : requestAggregation(s)
    \/ \E s \in Senders, r \in RequestIdInputs, m \in CallbackPayloads :
           handleAggregationResult(s, r, m[1], m[2])
    \/ \E s \in Senders : getAggregationResult(s)
    \/ \E s \in Senders, i \in LineIds : getCreditLineInfo(s, i)
    \/ \E s \in Senders, n \in Senders : transferEnterpriseOwnership(s, n)

Spec == Init /\ [][Next]_vars

\* the decryption oracle answers an issued request: the callback is invoked
\* with the true plaintexts of the handles submitted under it and the KMS
\* signature over them
HonestCallback ==
    \E s \in Senders, r \in IssuedRequestIds :
        handleAggregationResult(s, r, TrueCleartexts(r), KmsProof(r))

\* the contract together with an oracle that does not withhold its answer
\* for ever: an answer that stays deliverable and would change the state is
\* eventually delivered
FairSpec == Spec /\ WF_vars(HonestCallback)

(***************************************************************************)
(* Web client: submitCreditLine and loadCreditLines                        *)
(***************************************************************************)
\* recordData of a submission by session c
recordData(c) == [bankName |-> "bank", amount |-> "FHE-amount", owner |-> c]

\* let keys = []; if (keysBytes.length > 0) keys = JSON.parse(...)
readKeys ==
    IF getData(IndexKey) # EmptyBytes THEN JSONparse(getData(IndexKey)) ELSE <<>>

\* variant: the record is not written before the index is extended
storeAfterRecordWriteSkipped(c, recordId) == dataStore

\* await contract.setData(`credit_line_${recordId}`, recordData)
storeAfterRecordWrite(c, recordId) ==
    setData(recordKey(recordId), JSONstringify(recordData(c)))

\* submitCreditLine up to the first write: a fresh recordId is drawn and
\* the record is stored under its own key
submitStoreRecord(c) ==
    /\ sessions[c].pc = "idle"
    /\ sessions[c].count < MaxSubmissions
    /\ LET recordId == <<c, sessions[c].count + 1>>
       IN  /\ dataStore' = storeAfterRecordWrite(c, recordId)
           /\ sessions' = [sessions EXCEPT ![c].pc = "stored",
                                           ![c].recordId = recordId,
                                           ![c].count = @ + 1]
    /\ UNCHANGED contractVars

\* the index is read and the new id pushed onto the local copy
submitReadKeys(c) ==
    /\ sessions[c].pc = "stored"
    /\ sessions' = [sessions EXCEPT ![c].pc = "read",
                                    ![c].keys = Append(readKeys, sessions[c].recordId)]
    /\ UNCHANGED <<contractVars, dataStore>>

\* await contract.setData("credit_line_keys", keys): the local copy
\* replaces the stored index and the submission reports success
submitWriteKeys(c) ==
    /\ sessions[c].pc = "read"
    /\ dataStore' = setData(IndexKey, JSONstringify(sessions[c].keys))
    /\ sessions' = [sessions EXCEPT ![c] =
                        IdleSession(@.count, @.completed \cup {@.recordId})]
    /\ UNCHANGED contractVars

\* an awaited call after the first write throws (the read of the index or
\* the second write): the catch block reports the failure, nothing is
\* undone
submitFails(c) ==
    /\ sessions[c].pc \in {"stored", "read"}
    /\ sessions' = [sessions EXCEPT ![c] = IdleSession(@.count, @.completed)]
    /\ UNCHANGED <<contractVars, dataStore>>

\* the list loadCreditLines builds: the indexed ids whose record has bytes
loadCreditLinesReturn ==
    SelectSeq(readKeys, LAMBDA key : getData(recordKey(key)) # EmptyBytes)

\* loadCreditLines only reads the store
loadCreditLines(c) == UNCHANGED vars

ClientNext ==
    \/ \E c \in Clients : submitStoreRecord(c)
    \/ \E c \in Clients : submitReadKeys(c)
    \/ \E c \in Clients : submitWriteKeys(c)
    \/ \E c \in Clients : submitFails(c)
    \/ \E c \in Clients : loadCreditLines(c)

\* the browser sessions are open over an empty store; the contract is as
\* deployed
ClientInit ==
    /\ ContractInit
    /\ dataStore = EmptyStore
    /\ sessions = [c \in Clients |-> IdleSession(0, {})]

ClientSpec == ClientInit /\ [][ClientNext]_vars

(***************************************************************************)
(* Properties                                                              *)
(***************************************************************************)
\* the handles for which a callback carrying the genuine KMS response would
\* be accepted in the current state
AcceptableHandles ==
    {r \in IssuedRequestIds :
        handleAggregationResultOutcome(r, TrueCleartexts(r), KmsProof(r)) = Ok}

\* a request has been issued and no result has been published yet
RequestOutstanding ==
    /\ Len(decryptionRequests) > 0
    /\ ~aggregatedResult.isRevealed

\* C1: in every reachable state the plaintext of each accumulator equals the
\* sum modulo 2^32 of the corresponding plaintexts of the active records.
C1_AccumulatorsMatchActiveSums ==
    /\ Decrypt(encryptedTotalAvailable) = SumActiveAvailable
    /\ Decrypt(encryptedTotalUtilized) = SumActiveUtilized

\* C1 witness: two lines were added whose sum wrapped past 2^32, one of them
\* was deactivated again, so both fold-in and fold-out have run.
C1_Witness ==
    /\ lineCount = 2
    /\ encryptedLines[1].isActive
    /\ ~encryptedLines[2].isActive
    /\ Decrypt(encryptedLines[1].encryptedAmount) = U32(65535, 65535)
    /\ Decrypt(encryptedLines[2].encryptedAmount) = U32(0, 500)

\* C2 as stated: while a request is outstanding (issued, nothing published)
\* no further decryption request is issued.
C2_NoSecondRequestWhileOutstanding ==
    [][RequestOutstanding => decryptionRequests' = decryptionRequests]_vars

\* C2 amended: while nothing is published the owner's requestReveal never
\* fails, also when requests are already outstanding; each such call issues
\* one more decryption request under a fresh handle, registers it, and keeps
\* every earlier handle registered.
C2_SecondRequestAccepted ==
    /\ [](~aggregatedResult.isRevealed => requestAggregationOutcome(enterprise) = Ok)
    /\ [][\A s \in Senders :
            (RequestOutstanding /\ requestAggregationOutcome(s) = Ok
                /\ requestAggregation(s))
            => /\ Len(decryptionRequests') = Len(decryptionRequests) + 1
               /\ requestToAggregationId'[NextRequestId] = AggregationId
               /\ \A r \in IssuedRequestIds :
                      requestToAggregationId'[r] = AggregationId]_vars

\* C2 witness: two requests have been issued and nothing is published.
C2_Witness ==
    /\ Len(decryptionRequests) = 2
    /\ ~aggregatedResult.isRevealed
    /\ requestToAggregationId[0] = AggregationId
    /\ requestToAggregationId[1] = AggregationId

\* C3 as stated: at most one handle would be accepted with a valid proof.
C3_AtMostOneAcceptableHandle == Cardinality(AcceptableHandles) <= 1

\* C3 amended: until a result is published every handle issued so far would
\* be accepted with a valid proof (an earlier handle stays acceptable after a
\* later one is issued); once a result is published none is.
C3_AllIssuedHandlesAcceptable ==
    AcceptableHandles =
        IF aggregatedResult.isRevealed THEN {} ELSE IssuedRequestIds

\* C3 witness: two handles taken over different ledger contents are both
\* acceptable.
C3_Witness ==
    /\ Cardinality(AcceptableHandles) = 2
    /\ TrueCleartexts(0) # TrueCleartexts(1)

\* C4: once a callback has succeeded, the published result is the one it
\* carried and the same (requestId, cleartexts, proof) presented again is
\* rejected with AlreadyRevealed or UnknownRequest; a rejected call reverts,
\* so the published result is the same before and after the second call.
C4_SecondCallbackRejected ==
    fulfilledCallback # NoCallback =>
        /\ aggregatedResult = [totalAvailable |-> fulfilledCallback[2][1],
                               totalUtilized |-> fulfilledCallback[2][2],
                               isRevealed |-> TRUE]
        /\ handleAggregationResultOutcome(fulfilledCallback[1],
               fulfilledCallback[2], fulfilledCallback[3])
               \in {ErrAlreadyRevealed, ErrInvalidRequest}

\* C4 witness: a callback has succeeded and its arguments are now rejected.
C4_Witness ==
    /\ fulfilledCallback # NoCallback
    /\ fulfilledCallback[2] = <<U32(0, 499), U32(0, 4)>>
    /\ handleAggregationResultOutcome(fulfilledCallback[1],
           fulfilledCallback[2], fulfilledCallback[3]) = ErrAlreadyRevealed

\* C5: once revealed, no step changes any field of the published result.
C5_PublishedResultImmutable ==
    [][aggregatedResult.isRevealed => aggregatedResult' = aggregatedResult]_vars

\* C5 witness: a result is published, a second handle taken over other
\* ledger contents is still registered, and the ledger has moved on.
C5_Witness ==
    /\ aggregatedResult.isRevealed
    /\ Len(decryptionRequests) = 2
    /\ TrueCleartexts(0) # TrueCleartexts(1)
    /\ Decrypt(encryptedTotalAvailable) # aggregatedResult.totalAvailable

\* C6: with an honest capability, what getResult returns to the owner after
\* fulfilment is (sum of available, sum of utilized, true) over the records
\* that were active when the fulfilled handle was requested.
C6_ResultIsSumAtRequestTime ==
    aggregatedResult.isRevealed =>
        /\ fulfilledRequest \in IssuedRequestIds
        /\ getAggregationResultOutcome(enterprise) = Ok
        /\ getAggregationResultReturn =
               <<activeAtRequest[fulfilledRequest + 1][1],
                 activeAtRequest[fulfilledRequest + 1][2],
                 TRUE>>

\* C6 witness: lines (500,100) and (300,50) were revealed as {800,150,true},
\* and the ledger has changed since the request.
C6_Witness ==
    /\ getAggregationResultReturn = <<U32(0, 800), U32(0, 150), TRUE>>
    /\ Decrypt(encryptedTotalAvailable) # U32(0, 800)

\* C7 as stated: before any callback has succeeded the owner's getResult
\* fails.
C7_GetResultFailsBeforeFulfilment ==
    fulfilledRequest = NoRequest => getAggregationResultOutcome(enterprise) # Ok

\* C7 amended: the owner's getResult never fails; before any callback has
\* succeeded it returns (0, 0, revealed = false), and it returns
\* revealed = true only after a callback has succeeded.
C7_GetResultReturnsUnrevealedZeros ==
    /\ getAggregationResultOutcome(enterprise) = Ok
    /\ fulfilledRequest = NoRequest =>
           getAggregationResultReturn = <<Zero32, Zero32, FALSE>>
    /\ getAggregationResultReturn[3] => fulfilledRequest # NoRequest

\* C7 witness: lines are in the ledger, a request is outstanding, nothing
\* has been published.
C7_Witness ==
    /\ fulfilledRequest = NoRequest
    /\ Len(decryptionRequests) = 1
    /\ Decrypt(encryptedTotalAvailable) = U32(0, 800)

\* C8: once a result is published the owner's requestReveal fails with
\* AlreadyRevealed, and a requestReveal by anyone changes nothing: no request
\* is submitted, no handle registered, ledger and reveal state stay as they
\* were.
C8_RequestAfterRevealRejected ==
    /\ [](aggregatedResult.isRevealed =>
              requestAggregationOutcome(enterprise) = ErrAlreadyRevealed)
    /\ [][\A s \in Senders :
            (aggregatedResult.isRevealed /\ requestAggregation(s))
            => UNCHANGED vars]_vars

\* C8 witness: a result is published and the capability could still take
\* another request.
C8_Witness ==
    /\ aggregatedResult.isRevealed
    /\ Len(decryptionRequests) = 1
    /\ enterprise = "ent"

\* C9: for a tracked handle with nothing published yet, a callback whose
\* (cleartexts, proof) fail verification is rejected with InvalidProof (and,
\* reverting, changes nothing), while the callback with the valid proof is
\* still accepted in that same state.
C9_InvalidProofRejectedRetryAccepted ==
    \A r \in RequestIds :
        (requestToAggregationId[r] = AggregationId /\ ~aggregatedResult.isRevealed)
        => /\ \A m \in CallbackPayloads :
                  ~checkSignatures(r, m[1], m[2])
                  => handleAggregationResultOutcome(r, m[1], m[2])
                         = ErrInvalidSignatures
           /\ handleAggregationResultOutcome(r, TrueCleartexts(r), KmsProof(r)) = Ok

\* C9 witness: a tracked handle for which altered cleartexts, a forged proof
\* and another request's response are all on offer.
C9_Witness ==
    /\ RequestOutstanding
    /\ Len(decryptionRequests) = 2
    /\ TrueCleartexts(0) # TrueCleartexts(1)
    /\ handleAggregationResultOutcome(0, TrueCleartexts(1), KmsProof(1))
           = ErrInvalidSignatures

\* C10: a callback under a request id that no requestReveal returned is
\* rejected with UnknownRequest whatever cleartexts and proof it carries
\* (and, reverting, leaves pending handles and published result as they are).
C10_UnknownRequestRejected ==
    \A r \in RequestIds \ IssuedRequestIds, m \in CallbackPayloads :
        handleAggregationResultOutcome(r, m[1], m[2]) = ErrInvalidRequest

\* C10 witness: one request is pending and a genuine KMS response exists
\* that can be presented under an id never issued.
C10_Witness ==
    /\ RequestOutstanding
    /\ Len(decryptionRequests) = 1
    /\ requestToAggregationId[1] = 0
    /\ <<TrueCleartexts(0), KmsProof(0)>> \in CallbackPayloads

\* ids of the records created so far
AllocatedIds == 1..lineCount

\* C11: deactivateLine on a created record that is already inactive fails
\* with AlreadyInactive (and, reverting, leaves accumulators and record as
\* they are); no record's ciphertexts are subtracted from the accumulators
\* more than once, and an inactive record's were subtracted exactly once.
C11_InactiveLineNotFoldedOutAgain ==
    \A i \in LineIds :
        /\ foldOutCount[i] <= 1
        /\ (i \in AllocatedIds /\ ~encryptedLines[i].isActive)
           => /\ deactivateCreditLineOutcome(aggregator, i) = ErrLineInactive
              /\ foldOutCount[i] = 1

\* C11 witness: line 1 was deactivated, line 2 is still active.
C11_Witness ==
    /\ lineCount = 2
    /\ ~encryptedLines[1].isActive
    /\ foldOutCount[1] = 1
    /\ encryptedLines[2].isActive
    /\ deactivateCreditLineOutcome(aggregator, 1) = ErrLineInactive

\* C12 as stated: for an id never allocated the aggregator's deactivateLine
\* fails with an error other than the AlreadyInactive one.
C12_UnknownIdHasOwnError ==
    \A i \in LineIds \ AllocatedIds :
        deactivateCreditLineOutcome(aggregator, i) \notin {Ok, ErrLineInactive}

\* C12 amended: for an id never allocated (0 or above the line count) the
\* aggregator's deactivateLine fails with the same AlreadyInactive error as
\* for a deactivated record (and, reverting, leaves accumulators and records
\* as they are): the slot is empty and nothing was ever subtracted for it.
C12_UnknownIdRejectedAsInactive ==
    \A i \in LineIds \ AllocatedIds :
        /\ deactivateCreditLineOutcome(aggregator, i) = ErrLineInactive
        /\ encryptedLines[i] = EmptyLine
        /\ foldOutCount[i] = 0

\* C12 witness: one record exists and is deactivated; it and the ids never
\* allocated are refused with the same error.
C12_Witness ==
    /\ lineCount = 1
    /\ ~encryptedLines[1].isActive
    /\ deactivateCreditLineOutcome(aggregator, 1)
           = deactivateCreditLineOutcome(aggregator, 2)
    /\ deactivateCreditLineOutcome(aggregator, 0) = ErrLineInactive

\* C13: requestReveal by a caller other than the current owner fails with
\* Unauthorized (and, reverting, submits no request, registers no handle and
\* changes nothing), whether or not requests are outstanding or a result is
\* published.
C13_RequestByNonOwnerRejected ==
    \A s \in Senders :
        s # enterprise => requestAggregationOutcome(s) = ErrNotEnterprise

\* C13 witness: lines are recorded, nothing is revealed, and the aggregator
\* is not the owner: its requestReveal is refused while the owner's is not.
C13_Witness ==
    /\ lineCount = 2
    /\ ~aggregatedResult.isRevealed
    /\ enterprise # aggregator
    /\ requestAggregationOutcome(aggregator) = ErrNotEnterprise
    /\ requestAggregationOutcome(enterprise) = Ok

\* C14: every role-gated operation fails closed: addLine and deactivateLine
\* get past their gate only for the aggregator, requestReveal, getResult,
\* getLineMetadata and transferOwnerRole only for the current owner; any
\* other caller gets Unauthorized (and, reverting, changes nothing).
C14_GatedOperationsFailClosed ==
    \A s \in Senders :
        /\ s # aggregator
           => /\ addEncryptedCreditLineOutcome(s) = ErrNotAggregator
              /\ \A i \in LineIds :
                     deactivateCreditLineOutcome(s, i) = ErrNotAggregator
        /\ s # enterprise
           => /\ requestAggregationOutcome(s) = ErrNotEnterprise
              /\ getAggregationResultOutcome(s) = ErrNotEnterprise
              /\ getCreditLineInfoOutcome(s) = ErrNotEnterprise
              /\ transferEnterpriseOwnershipOutcome(s) = ErrNotEnterprise

\* C14 witness: the two roles are held by different callers, an active line
\* exists, and each caller is refused by the other role's operations.
C14_Witness ==
    /\ enterprise # aggregator
    /\ lineCount = 1
    /\ encryptedLines[1].isActive
    /\ deactivateCreditLineOutcome(enterprise, 1) = ErrNotAggregator
    /\ deactivateCreditLineOutcome(aggregator, 1) = Ok
    /\ getCreditLineInfoOutcome(aggregator) = ErrNotEnterprise

\* C15: once a record exists its id, contributor, creation time and both
\* ciphertexts never change, its active flag never goes from false to true,
\* and so goes from true to false at most once.
C15_RecordImmutableExceptDeactivation ==
    [][\A i \in AllocatedIds :
           /\ encryptedLines'[i].lineId = encryptedLines[i].lineId
           /\ encryptedLines'[i].bankAddress = encryptedLines[i].bankAddress
           /\ encryptedLines'[i].timestamp = encryptedLines[i].timestamp
           /\ encryptedLines'[i].encryptedAmount = encryptedLines[i].encryptedAmount
           /\ encryptedLines'[i].encryptedUtilized = encryptedLines[i].encryptedUtilized
           /\ encryptedLines'[i].isActive => encryptedLines[i].isActive]_vars

\* C15 witness: line 1 was deactivated and still carries what it was created
\* with, while a second line was added afterwards.
C15_Witness ==
    /\ lineCount = 2
    /\ ~encryptedLines[1].isActive
    /\ encryptedLines[1].bankAddress = "bankB"
    /\ Decrypt(encryptedLines[1].encryptedAmount) = U32(0, 300)
    /\ Decrypt(encryptedLines[1].encryptedUtilized) = U32(0, 50)
    /\ encryptedLines[1].timestamp = BlockTimestamp
    /\ encryptedLines[2].isActive

\* C16: the ids that denote a record are exactly 1..lineCount, the record
\* under id i carrying id i; no record exists under 0 or above lineCount,
\* so each addLine took the previous count plus one and no id was reused,
\* also after deactivations.
C16_IdsAreOneToLineCount ==
    /\ lineCount \in 0..(MaxLines + 1)
    /\ \A i \in LineIds :
           IF i \in AllocatedIds
           THEN /\ encryptedLines[i].lineId = i
                /\ encryptedLines[i].timestamp = BlockTimestamp
                /\ encryptedLines[i].bankAddress # ZeroAddress
           ELSE encryptedLines[i] = EmptyLine

\* C16 witness: line 1 was deactivated before line 2 was added; line 2 got
\* the fresh id 2 and the next id is still unused.
C16_Witness ==
    /\ lineCount = 2
    /\ ~encryptedLines[1].isActive
    /\ encryptedLines[2].isActive
    /\ encryptedLines[2].lineId = 2
    /\ encryptedLines[newLineId] = EmptyLine

\* C17: the owner identity changes only in a transferOwnerRole step of the
\* current owner, and nobody else gets past that operation's gate; right
\* after the step the new identity passes every owner gate and the previous
\* owner is refused with Unauthorized by each of them; the aggregator
\* identity never changes.
C17_OwnerChangesOnlyByTransfer ==
    /\ [](\A s \in Senders :
             s # enterprise
                 => transferEnterpriseOwnershipOutcome(s) = ErrNotEnterprise)
    /\ [][/\ aggregator' = aggregator
          /\ \A old \in Senders, new \in Senders :
                 (enterprise = old /\ enterprise' = new /\ new # old)
                 => /\ transferEnterpriseOwnershipOutcome(old) = Ok
                    /\ transferEnterpriseOwnership(old, new)
                    /\ (requestAggregationOutcome(new) # ErrNotEnterprise)'
                    /\ (getAggregationResultOutcome(new) = Ok)'
                    /\ (getCreditLineInfoOutcome(new) = Ok)'
                    /\ (transferEnterpriseOwnershipOutcome(new) = Ok)'
                    /\ (requestAggregationOutcome(old) = ErrNotEnterprise)'
                    /\ (getAggregationResultOutcome(old) = ErrNotEnterprise)'
                    /\ (getCreditLineInfoOutcome(old) = ErrNotEnterprise)'
                    /\ (transferEnterpriseOwnershipOutcome(old) = ErrNotEnterprise)']_vars

\* C17 witness: with lines recorded and a request outstanding the owner role
\* lies with the aggregator's address; the other caller, from whom or to
\* whom the role is transferred, is refused by the owner gates.
C17_Witness ==
    /\ enterprise = aggregator
    /\ lineCount = 2
    /\ RequestOutstanding
    /\ transferEnterpriseOwnershipOutcome("ent") = ErrNotEnterprise
    /\ getAggregationResultOutcome("ent") = ErrNotEnterprise
    /\ transferEnterpriseOwnershipOutcome("agg") = Ok

\* C18: every operation is all-or-nothing.  A call whose outcome is an error
\* has no step that changes the state; a step that touches the ledger is
\* one complete addLine (new record under the next id, both accumulators
\* folded in) or one complete deactivateLine (one flag cleared, both
\* accumulators folded out), so the accumulators are never updated one
\* without the other; a request is submitted together with its
\* registration; a result is written whole, together with the revealed
\* flag.
C18_OperationsAllOrNothing ==
    /\ [](\A s \in Senders :
             /\ \A a \in Submissions :
                    addEncryptedCreditLineOutcome(s) # Ok
                    => ~ENABLED <<addEncryptedCreditLine(
                                     s, a[1], asEuint32(a[2]), asEuint32(a[3]))>>_vars
             /\ \A i \in LineIds :
                    deactivateCreditLineOutcome(s, i) # Ok
                    => ~ENABLED <<deactivateCreditLine(s, i)>>_vars
             /\ requestAggregationOutcome(s) # Ok
                => ~ENABLED <<requestAggregation(s)>>_vars
             /\ \A n \in Senders :
                    transferEnterpriseOwnershipOutcome(s) # Ok
                    => ~ENABLED <<transferEnterpriseOwnership(s, n)>>_vars
             /\ \A r \in RequestIdInputs, m \in CallbackPayloads :
                    handleAggregationResultOutcome(r, m[1], m[2]) # Ok
                    => ~ENABLED <<handleAggregationResult(s, r, m[1], m[2])>>_vars)
    /\ [][\/ UNCHANGED vars
          \/ /\ ledger' # ledger
                => \/ /\ lineCount' = lineCount + 1
                      /\ encryptedLines'[lineCount'].isActive
                      /\ \A i \in LineIds \ {lineCount'} :
                             encryptedLines'[i] = encryptedLines[i]
                      /\ encryptedTotalAvailable' =
                             FHEadd(encryptedTotalAvailable,
                                    encryptedLines'[lineCount'].encryptedAmount)
                      /\ encryptedTotalUtilized' =
                             FHEadd(encryptedTotalUtilized,
                                    encryptedLines'[lineCount'].encryptedUtilized)
                   \/ /\ lineCount' = lineCount
                      /\ \E i \in AllocatedIds :
                             /\ encryptedLines[i].isActive
                             /\ encryptedLines' =
                                    [encryptedLines EXCEPT ![i].isActive = FALSE]
                             /\ encryptedTotalAvailable' =
                                    FHEsub(encryptedTotalAvailable,
                                           encryptedLines[i].encryptedAmount)
                             /\ encryptedTotalUtilized' =
                                    FHEsub(encryptedTotalUtilized,
                                           encryptedLines[i].encryptedUtilized)
             /\ (decryptionRequests' # decryptionRequests
                    \/ requestToAggregationId' # requestToAggregationId)
                => /\ Len(decryptionRequests') = Len(decryptionRequests) + 1
                   /\ requestToAggregationId' =
                          [requestToAggregationId EXCEPT
                               ![Len(decryptionRequests)] = AggregationId]
             /\ aggregatedResult' # aggregatedResult
                => /\ aggregatedResult'.isRevealed
                   /\ fulfilledCallback' # NoCallback
                   /\ aggregatedResult'.totalAvailable = fulfilledCallback'[2][1]
                   /\ aggregatedResult'.totalUtilized = fulfilledCallback'[2][2]]_vars

\* C18 witness: each kind of complete step has happened: two lines were
\* folded in, one was folded out, a request was registered and a result
\* written.
C18_Witness ==
    /\ lineCount = 2
    /\ foldOutCount[2] = 1
    /\ encryptedLines[1].isActive
    /\ Len(decryptionRequests) = 1
    /\ aggregatedResult.isRevealed
    /\ deactivateCreditLineOutcome(aggregator, 2) = ErrLineInactive
    /\ requestAggregationOutcome(enterprise) = ErrAlreadyRevealed

\* position of the reveal state: 0 = Idle (no handle registered), 1 =
\* Pending (a handle registered, nothing published), 2 = Fulfilled
RevealPhase ==
    IF aggregatedResult.isRevealed THEN 2
    ELSE IF \E r \in RequestIds : requestToAggregationId[r] = AggregationId
         THEN 1
         ELSE 0

\* C19: the reveal state only moves forward, Idle to Pending to Fulfilled,
\* one position at a time; Fulfilled is terminal: no requestReveal and no
\* callback succeeds in it, and handles, submitted requests and the
\* published result stay as they are.
C19_RevealStateOnlyForward ==
    /\ [](RevealPhase = 2
          => /\ \A s \in Senders : requestAggregationOutcome(s) # Ok
             /\ \A r \in RequestIds, m \in CallbackPayloads :
                    handleAggregationResultOutcome(r, m[1], m[2]) # Ok)
    /\ [][/\ RevealPhase' \in {RevealPhase, RevealPhase + 1}
          /\ RevealPhase = 2
             => /\ RevealPhase' = 2
                /\ aggregatedResult' = aggregatedResult
                /\ requestToAggregationId' = requestToAggregationId
                /\ decryptionRequests' = decryptionRequests
                /\ fulfilledCallback' = fulfilledCallback]_vars

\* C19 witness: two requests were issued, the callback for the first one was
\* accepted, the second handle is still registered, and the ledger has moved
\* on since.
C19_Witness ==
    /\ RevealPhase = 2
    /\ Len(decryptionRequests) = 2
    /\ fulfilledRequest = 0
    /\ requestToAggregationId[1] = AggregationId
    /\ lineCount = 2

\* C20: with an oracle that eventually delivers a valid callback for the
\* issued handles, every successful requestReveal is eventually followed by
\* a published result; and the reveal state leaves Pending in no other way:
\* a step out of Pending is the acceptance of a callback that carries the
\* true plaintexts and the KMS proof of an issued handle, and it leads to
\* Fulfilled.
C20_RequestEventuallyRevealed ==
    /\ (Len(decryptionRequests) > 0) ~> aggregatedResult.isRevealed
    /\ [][(RevealPhase = 1 /\ RevealPhase' # 1)
          => /\ RevealPhase' = 2
             /\ \E r \in IssuedRequestIds :
                    fulfilledCallback' = <<r, TrueCleartexts(r), KmsProof(r)>>]_vars

\* C20 witness: a request was issued over a non-empty ledger and the
\* oracle's answer to it has been accepted.
C20_Witness ==
    /\ Len(decryptionRequests) = 1
    /\ lineCount = 1
    /\ aggregatedResult.isRevealed
    /\ fulfilledCallback = <<0, TrueCleartexts(0), KmsProof(0)>>
    /\ aggregatedResult.totalAvailable # Zero32

\* C21: the outcome of the callback does not depend on who invokes it.  For
\* every (requestId, cleartexts, proof), in every reachable state: if the
\* checks pass, every caller has the state-changing step, and if they fail
\* with some error, no caller has one (the error is a function of the
\* arguments and the state alone); and a step in which a callback is
\* accepted is the step of every caller with those arguments, so the
\* resulting states are equal.
C21_CallbackOutcomeIndependentOfCaller ==
    /\ [](\A r \in RequestIdInputs, m \in CallbackPayloads :
             IF handleAggregationResultOutcome(r, m[1], m[2]) = Ok
             THEN \A s \in Senders :
                      ENABLED <<handleAggregationResult(s, r, m[1], m[2])>>_vars
             ELSE \A s \in Senders :
                      ~ENABLED <<handleAggregationResult(s, r, m[1], m[2])>>_vars)
    /\ [][fulfilledCallback' # fulfilledCallback
          => \A s \in Senders :
                 handleAggregationResult(s, fulfilledCallback'[1],
                                         fulfilledCallback'[2],
                                         fulfilledCallback'[3])]_vars

\* C21 witness: a callback was accepted in a state where one caller holds
\* both roles and the other none, so the caller without any role could
\* have been the one that delivered it.
C21_Witness ==
    /\ aggregatedResult.isRevealed
    /\ enterprise = aggregator
    /\ fulfilledCallback = <<0, TrueCleartexts(0), KmsProof(0)>>
    /\ lineCount = 1

\* C22: lines added or deactivated between a request and its callback do
\* not affect the published result.  The only cleartexts with which a
\* callback for an issued request can be accepted are the sums over the
\* records active when that request was issued, whatever the accumulators
\* hold by then; and the published result is that pair for the request
\* whose callback was accepted.
C22_ResultFixedAtRequestTime ==
    /\ \A r \in IssuedRequestIds, m \in CallbackPayloads :
           handleAggregationResultOutcome(r, m[1], m[2]) = Ok
           => m[1] = activeAtRequest[r + 1]
    /\ aggregatedResult.isRevealed
       => <<aggregatedResult.totalAvailable, aggregatedResult.totalUtilized>>
              = activeAtRequest[fulfilledRequest + 1]

\* C22 witness: request 0 was answered and accepted after the ledger had
\* changed: a second request, necessarily issued before the acceptance,
\* captured other sums, and the accumulators differ from the result.
C22_Witness ==
    /\ aggregatedResult.isRevealed
    /\ fulfilledRequest = 0
    /\ Len(decryptionRequests) = 2
    /\ activeAtRequest[2] # activeAtRequest[1]
    /\ aggregatedResult.totalAvailable = activeAtRequest[1][1]
    /\ Decrypt(encryptedTotalAvailable) # aggregatedResult.totalAvailable

\* C23: frame conditions.  A step that changes the reveal protocol
\* (submitted requests, registered handles, published result) leaves line
\* count, records and accumulators alone; a step that changes the ledger
\* leaves the reveal protocol alone; a step that changes the owner changes
\* nothing else; and no step but a transfer changes the owner.
C23_FrameConditions ==
    [][/\ <<decryptionRequests, revealState>>' # <<decryptionRequests, revealState>>
          => /\ ledger' = ledger
             /\ <<aggregator, enterprise>>' = <<aggregator, enterprise>>
       /\ ledger' # ledger
          => /\ <<decryptionRequests, revealState>>'
                    = <<decryptionRequests, revealState>>
             /\ <<aggregator, enterprise>>' = <<aggregator, enterprise>>
       /\ enterprise' # enterprise
          => /\ ledger' = ledger
             /\ <<decryptionRequests, revealState>>'
                    = <<decryptionRequests, revealState>>
             /\ aggregator' = aggregator
             /\ ghost' = ghost]_vars

\* C23 witness: ledger steps, reveal steps and a transfer have all
\* happened: a line was added and one deactivated, a result is published,
\* and the owner role lies with the aggregator's address.
C23_Witness ==
    /\ lineCount = 2
    /\ foldOutCount[1] = 1
    /\ aggregatedResult.isRevealed
    /\ Len(decryptionRequests) = 2
    /\ enterprise = aggregator

\* C24 as stated, for the first record (before its add both accumulators
\* are zero): deactivating it restores both accumulators to zero, whatever
\* was added or deactivated in between.
C24_DeactivationRestoresPreAddValues ==
    [][(encryptedLines[1].isActive /\ ~encryptedLines'[1].isActive)
       => /\ Decrypt(encryptedTotalAvailable') = Zero32
          /\ Decrypt(encryptedTotalUtilized') = Zero32]_vars

\* C24 amended: adding a record and deactivating it cancel out exactly,
\* modulo 2^32, wrap-around included.  Subtracting the new record's
\* ciphertexts right after its add gives back the accumulators from before
\* the add; and whatever was added or deactivated in between, deactivating
\* a record leaves both accumulators equal to the sums over the other
\* active records, as if it had never been added.
C24_AddThenDeactivateCancels ==
    [][/\ lineCount' = lineCount + 1
          => /\ FHEsub(encryptedTotalAvailable',
                       encryptedLines'[lineCount'].encryptedAmount)
                    = encryptedTotalAvailable
             /\ FHEsub(encryptedTotalUtilized',
                       encryptedLines'[lineCount'].encryptedUtilized)
                    = encryptedTotalUtilized
       /\ \A i \in AllocatedIds :
              (encryptedLines[i].isActive /\ ~encryptedLines'[i].isActive)
              => /\ Decrypt(encryptedTotalAvailable') =
                        SumOver(encryptedLines,
                                ActiveIds(encryptedLines) \ {i}, "encryptedAmount")
                 /\ Decrypt(encryptedTotalUtilized') =
                        SumOver(encryptedLines,
                                ActiveIds(encryptedLines) \ {i}, "encryptedUtilized")]_vars

\* C24 witness: (500, 100) was added, then the largest amount, which made
\* both accumulators wrap, and the second record was deactivated again: the
\* accumulators are back at (500, 100).
C24_Witness ==
    /\ lineCount = 2
    /\ encryptedLines[1].isActive
    /\ foldOutCount[2] = 1
    /\ Decrypt(encryptedLines[2].encryptedAmount) = U32(65535, 65535)
    /\ Decrypt(encryptedLines[2].encryptedUtilized) = U32(65535, 65440)
    /\ Decrypt(encryptedTotalAvailable) = U32(0, 500)
    /\ Decrypt(encryptedTotalUtilized) = U32(0, 100)

\* C25: once a result is published the ledger keeps working: the
\* aggregator's addLine is not refused, its deactivateLine of an active
\* record is not refused and has its step, the accumulators stay equal to
\* the sums over the active records, and the published result stays what
\* the accepted callback delivered: no step changes it.
C25_LedgerWorksAfterReveal ==
    /\ [](aggregatedResult.isRevealed
          => /\ addEncryptedCreditLineOutcome(aggregator) = Ok
             /\ \A i \in AllocatedIds :
                    encryptedLines[i].isActive
                    => /\ deactivateCreditLineOutcome(aggregator, i) = Ok
                       /\ ENABLED <<deactivateCreditLine(aggregator, i)>>_vars
             /\ Decrypt(encryptedTotalAvailable) = SumActiveAvailable
             /\ Decrypt(encryptedTotalUtilized) = SumActiveUtilized
             /\ aggregatedResult.totalAvailable = fulfilledCallback[2][1]
             /\ aggregatedResult.totalUtilized = fulfilledCallback[2][2])
    /\ [][(aggregatedResult.isRevealed /\ ledger' # ledger)
          => /\ aggregatedResult' = aggregatedResult
             /\ fulfilledCallback' = fulfilledCallback]_vars

\* C25 witness: a result is published, of a single request issued when one
\* line of 500 was active; two lines exist now, one deactivated, and the
\* accumulators hold other values than the published ones.
C25_Witness ==
    /\ aggregatedResult.isRevealed
    /\ Len(decryptionRequests) = 1
    /\ aggregatedResult.totalAvailable = U32(0, 500)
    /\ lineCount = 2
    /\ ~encryptedLines[1].isActive
    /\ Decrypt(encryptedTotalAvailable) = U32(0, 300)
    /\ addEncryptedCreditLineOutcome(aggregator) = Ok

\* C26: getLineMetadata by the owner never fails and returns three values,
\* no ciphertext among them: for an allocated id the contributor and the
\* creation time the record was created with and its current active flag,
\* for an id never allocated the zero identity, 0 and false.
C26_LineMetadataReturn ==
    /\ getCreditLineInfoOutcome(enterprise) = Ok
    /\ \A i \in LineIds :
           LET ret == getCreditLineInfoReturn(i)
           IN  /\ Len(ret) = 3
               /\ IF i \in AllocatedIds
                  THEN /\ ret[1] = encryptedLines[i].bankAddress
                       /\ ret[1] \in {a[1] : a \in Submissions}
                       /\ ret[2] = BlockTimestamp
                       /\ ret[3] = (foldOutCount[i] = 0)
                  ELSE ret = <<ZeroAddress, 0, FALSE>>

\* C26 witness: one active and one deactivated record exist and id 3 was
\* never allocated; the getter distinguishes the three.
C26_Witness ==
    /\ lineCount = 2
    /\ getCreditLineInfoReturn(1) = <<"bankA", BlockTimestamp, FALSE>>
    /\ getCreditLineInfoReturn(2) = <<"bankB", BlockTimestamp, TRUE>>
    /\ getCreditLineInfoReturn(0) = <<ZeroAddress, 0, FALSE>>
    /\ getCreditLineInfoReturn(lineCount + 1) = <<ZeroAddress, 0, FALSE>>

\* the ids listed in the stored index
IndexedIds == {readKeys[k] : k \in 1..Len(readKeys)}
\* the ids of the submissions that reported success
completedSubmissions == UNION {sessions[c].completed : c \in DOMAIN sessions}

\* C27: the record is stored before its id enters the index, so in every
\* reachable storage state, also after a submission that failed between
\* the two writes, every id listed in credit_line_keys has a stored record
\* (loadCreditLines finds a record for every listed id), and so has every
\* id of a list a session is about to write.
C27_IndexedIdsHaveRecords ==
    /\ \A id \in IndexedIds : getData(recordKey(id)) # EmptyBytes
    /\ Len(loadCreditLinesReturn) = Len(readKeys)
    /\ \A c \in Clients :
           \A k \in 1..Len(sessions[c].keys) :
               getData(recordKey(sessions[c].keys[k])) # EmptyBytes

\* C27 witness: one submission went through and one failed between its two
\* writes: its record is stored but its id is not in the index.
C27_Witness ==
    /\ readKeys = << <<"c1", 1>> >>
    /\ getData(recordKey(<<"c2", 1>>)) # EmptyBytes
    /\ sessions["c2"].pc = "idle"
    /\ completedSubmissions = {<<"c1", 1>>}

\* C28 as stated: the index contains the id of every submission that
\* completed successfully.
C28_NoSubmissionLost ==
    completedSubmissions \subseteq IndexedIds

=============================================================================
